---- MODULE Spec2Model ----
(***************************************************************************)
(* plex-servarr-sync: the deduplicating intake (enqueue_sync), the single  *)
(* background worker (sync_worker, _find_plex_item, rclone_vfs_refresh),   *)
(* the lazily connected Plex handle (get_plex / invalidate_plex) and the   *)
(* history ring (SyncHistory) of src/plex_servarr_webhook.py.              *)
(*                                                                         *)
(* Strings that the code inspects (paths, exception messages) are          *)
(* sequences of one-character strings, so that strip / replace / rstrip /  *)
(* lower / startswith / "in" are computed as the code computes them.       *)
(***************************************************************************)
EXTENDS Integers, Sequences, FiniteSets, TLC

\* ------------------------------------------------------------------------
\* Bounds of the model
\* ------------------------------------------------------------------------
\* number of concurrently running HTTP handler threads
NumHandlers == 2
\* enqueue_sync calls in a run whose outside world answers without errors
StormCalls == 3
\* enqueue_sync calls in a run whose outside world may answer with errors
FaultCalls == 2
\* enqueue_sync calls in a run that receives a shutdown signal
SignalCalls == 1
\* enqueue_sync calls in a run that also receives GET /health requests
StatusCalls == 1
ClockCalls == 2
\* the clock's resolution and the time a run is observed for, in seconds
TickSeconds == 10
MaxTime == 60
\* enqueue_sync calls in a run that begins after earlier tasks were completed
RingCalls == 2
\* number of tasks completed before such a run begins
PastTasks == 49

\* ------------------------------------------------------------------------
\* String helpers (Python str methods)
\* ------------------------------------------------------------------------
UpperChars == <<"A", "B", "C", "D", "E", "F", "G", "H", "I", "J", "K", "L", "M", "N", "O", "P", "Q", "R", "S", "T", "U", "V", "W", "X", "Y", "Z">>
LowerChars == <<"a", "b", "c", "d", "e", "f", "g", "h", "i", "j", "k", "l", "m", "n", "o", "p", "q", "r", "s", "t", "u", "v", "w", "x", "y", "z">>
WhiteChars == {" "}

LowerChar(c) ==
    IF \E i \in 1..26 : UpperChars[i] = c
    THEN LowerChars[CHOOSE i \in 1..26 : UpperChars[i] = c]
    ELSE c

\* str.lower()
Lower(s) == [i \in 1..Len(s) |-> LowerChar(s[i])]

\* str.startswith(p)
StartsWith(s, p) == Len(p) <= Len(s) /\ SubSeq(s, 1, Len(p)) = p

\* sub in s
Contains(sub, s) ==
    \E i \in 0..(Len(s) - Len(sub)) : SubSeq(s, i + 1, i + Len(sub)) = sub

\* s[n:]
DropFirst(s, n) == SubSeq(s, n + 1, Len(s))

\* str.rstrip(c)
RECURSIVE RStrip(_, _)
RStrip(s, c) ==
    IF Len(s) > 0 /\ s[Len(s)] = c THEN RStrip(SubSeq(s, 1, Len(s) - 1), c) ELSE s

\* str.lstrip(c)
RECURSIVE LStrip(_, _)
LStrip(s, c) ==
    IF Len(s) > 0 /\ s[1] = c THEN LStrip(Tail(s), c) ELSE s

\* str.strip()
RECURSIVE StripWhite(_)
StripWhite(s) ==
    IF Len(s) > 0 /\ s[1] \in WhiteChars THEN StripWhite(Tail(s))
    ELSE IF Len(s) > 0 /\ s[Len(s)] \in WhiteChars THEN StripWhite(SubSeq(s, 1, Len(s) - 1))
    ELSE s

\* str.replace('\\', '/')
ReplaceBackslash(s) == [i \in 1..Len(s) |-> IF s[i] = "\\" THEN "/" ELSE s[i]]

\* ------------------------------------------------------------------------
\* Path mapper
\* ------------------------------------------------------------------------
normalize_path(path, is_dir) ==
    IF path = <<>> THEN <<>>
    ELSE LET clean == RStrip(ReplaceBackslash(StripWhite(path)), "/")
         IN  IF is_dir THEN clean \o <<"/">> ELSE clean

\* json.loads(raw) is a sequence of <<key, value>> pairs in document order;
\* the dict comprehension keeps the last value written for a normalized key.
parse_json_env(data) ==
    LET key(i) == Lower(normalize_path(data[i][1], FALSE))
        keys   == {key(i) : i \in 1..Len(data)}
        last(k) == CHOOSE i \in 1..Len(data) :
                      key(i) = k /\ \A j \in 1..Len(data) : key(j) = k => j <= i
    IN  [k \in keys |-> data[last(k)][2]]

\* the first key of sorted(mapping, key=len, reverse=True) that is a prefix
LongestPrefix(mapping, lower) ==
    LET matching == {p \in DOMAIN mapping : StartsWith(lower, p)}
    IN  CHOOSE p \in matching : \A q \in matching : Len(q) <= Len(p)

HasPrefix(mapping, lower) == \E p \in DOMAIN mapping : StartsWith(lower, p)

apply_path_mapping(path, mapping, is_dir) ==
    LET orig  == normalize_path(path, FALSE)
        lower == Lower(orig)
    IN  IF HasPrefix(mapping, lower)
        THEN LET prefix == LongestPrefix(mapping, lower)
             IN  normalize_path(mapping[prefix] \o DropFirst(orig, Len(prefix)), is_dir)
        ELSE normalize_path(orig, is_dir)

\* ------------------------------------------------------------------------
\* Configuration (immutable after load)
\* ------------------------------------------------------------------------
PATH_REPLACEMENTS_ENV == << << <<"/", "D", "/">>, <<"/", "m">> >> >>
RCLONE_PATH_REPLACEMENTS_ENV == << << <<"/", "d">>, <<"/", "r">> >> >>
SECTION_MAPPING_ENV == << << <<"/", "m", "/">>, "1" >> >>

PATH_REPLACEMENTS == parse_json_env(PATH_REPLACEMENTS_ENV)
RCLONE_PATH_REPLACEMENTS == parse_json_env(RCLONE_PATH_REPLACEMENTS_ENV)
SECTION_MAPPING == parse_json_env(SECTION_MAPPING_ENV)
RCLONE_MOUNT_ROOT == <<"/", "r">>
WEBHOOK_DELAY == 30

\* the raw paths the webhooks deliver
RawPaths ==
    { <<>>,
      <<"/", "d", "/", "x">>,
      <<"/", "m", "/", "x", "/">>,
      <<"/", "M", "/", "y">>,
      <<"/", "z">> }

\* the label the webhook route passes: instance_type.upper()
Label == "SONARR"

\* thread identities for the two mutexes
Free == 0
WorkerThread == -1
HealthThread == -2
Handlers == 1..NumHandlers

\* ------------------------------------------------------------------------
\* State
\* ------------------------------------------------------------------------
VARIABLES
    env,               \* what the outside world does in this run (see Scenarios)
    USE_RCLONE,        \* configuration, fixed at load
    RCLONE_RC_URL,
    MINIMUM_AGE,
    mapcall,           \* a call of apply_path_mapping under test (see MapSpec)
    sync_queue,        \* queue.Queue of SyncTask, FIFO
    unfinished_tasks,  \* queue.Queue's count of put() not yet task_done()
    _in_flight,        \* set of mapped_folder strings
    _in_flight_lock,   \* holder of the lock, or Free
    _plex,             \* cached PlexServer (its identity), or NoPlex
    plex_connects,     \* number of PlexServer objects created so far
    _plex_lock,
    _worker_alive,     \* threading.Event
    exited,            \* the process has exited (sys.exit in the signal handler)
    history,           \* SyncHistory._buf, newest first
    hpc,               \* position of each HTTP handler thread inside enqueue_sync
    hloc,              \* its local variables
    hres,              \* the response it is about to send
    calls,             \* number of enqueue_sync calls made so far
    health_pc,         \* position of the thread that serves GET /health
    wpc,               \* position of the worker thread inside sync_worker
    loc,               \* its local variables
    now                \* time.monotonic(), in seconds

cfgVars == <<env, USE_RCLONE, RCLONE_RC_URL, MINIMUM_AGE, mapcall>>
sharedVars ==
    <<sync_queue, unfinished_tasks, _in_flight, _in_flight_lock, _plex, plex_connects, _plex_lock,
      _worker_alive, exited, history>>
handlerVars == <<hpc, hloc, hres, calls>>
statusVars == <<health_pc>>
workerVars == <<wpc, loc>>
clockVars == <<now>>
vars == <<cfgVars, sharedVars, handlerVars, statusVars, workerVars, clockVars>>

None == "None"
NoPath == <<"?">>
\* _plex is None
NoPlex == 0

\* class SyncTask
SyncTask(section_id, raw_path, rclone_host_path, age_check_path, mapped_folder, label, queued_at) ==
    [section_id |-> section_id, raw_path |-> raw_path, rclone_host_path |-> rclone_host_path,
     age_check_path |-> age_check_path, mapped_folder |-> mapped_folder, label |-> label,
     queued_at |-> queued_at]

NoLocals == [raw_path |-> NoPath, label |-> None, mapped_folder |-> NoPath,
             rclone_path |-> NoPath, section_id |-> None]

NoResponse == [status |-> None]

\* SyncHistory(maxlen=50)
HistoryMaxLen == 50

\* a full buffer that drops the newest of its old entries
AppendLeft_DropNewest(buf, entry) ==
    IF Len(buf) >= HistoryMaxLen THEN <<entry>> \o Tail(buf) ELSE <<entry>> \o buf

\* deque(maxlen).appendleft
AppendLeft(buf, entry) ==
    LET all == <<entry>> \o buf
    IN  IF Len(all) > HistoryMaxLen THEN SubSeq(all, 1, HistoryMaxLen) ELSE all

\* the worker's locals between two tasks; scans lists the rescan requests sent
\* to the library for the task, caught is the exception that _find_plex_item
\* has caught and dropped in the step just taken
NoTask == SyncTask(None, NoPath, NoPath, NoPath, NoPath, None, 0)

WorkerIdle ==
    [task |-> NoTask, status |-> None, error_msg |-> <<>>, plex_instance |-> NoPlex,
     attempt |-> 0, i |-> 0, item |-> None, ret |-> None, scans |-> <<>>, caught |-> <<>>,
     wake |-> 0]

\* the configurations a deployment can load (with USE_RCLONE false the other
\* rclone settings may still be set)
Configs ==
    { [use_rclone |-> FALSE, rc_url |-> "http://rclone:5572", min_age |-> 0],
      [use_rclone |-> TRUE, rc_url |-> "http://rclone:5572", min_age |-> 60] }

\* The runs that are explored: a storm of webhooks from concurrent handler
\* threads against an outside world that answers every call; a run of one
\* handler thread against an outside world that may fail every call; a run
\* that receives SIGTERM / SIGINT; a run that also serves GET /health; a run
\* that is observed from the moment the worker has completed earlier tasks; a
\* run that is observed with a clock (in the other runs time is not observed:
\* the clock stands at 0 and every sleep ends).
Scenarios ==
    { [calls |-> StormCalls, handlers |-> NumHandlers, faults |-> FALSE, signals |-> FALSE,
       health |-> FALSE, past |-> 0, clock |-> FALSE],
      [calls |-> FaultCalls, handlers |-> 1, faults |-> TRUE, signals |-> FALSE,
       health |-> FALSE, past |-> 0, clock |-> FALSE],
      [calls |-> SignalCalls, handlers |-> 1, faults |-> FALSE, signals |-> TRUE,
       health |-> FALSE, past |-> 0, clock |-> FALSE],
      [calls |-> StatusCalls, handlers |-> 1, faults |-> TRUE, signals |-> FALSE,
       health |-> TRUE, past |-> 0, clock |-> FALSE],
      [calls |-> RingCalls, handlers |-> 1, faults |-> FALSE, signals |-> FALSE,
       health |-> FALSE, past |-> PastTasks, clock |-> FALSE],
      [calls |-> ClockCalls, handlers |-> 1, faults |-> FALSE, signals |-> FALSE,
       health |-> FALSE, past |-> 0, clock |-> TRUE] }

\* the exceptions, or failing answers, the outside world may produce in this run
Faults(S) == IF env.faults THEN S ELSE {}

\* no call of apply_path_mapping is under test
NoMapCall == [path |-> <<>>, data |-> <<>>, dir_mode |-> <<>>, file_mode |-> <<>>]

\* the history after n tasks that were completed without an error, newest first
PastHistory(n) ==
    [k \in 1..(IF n > HistoryMaxLen THEN HistoryMaxLen ELSE n) |->
        [label |-> Label,
         path |-> IF k % 3 = 0 THEN <<"/", "M", "/", "y", "/">> ELSE <<"/", "m", "/", "x", "/">>,
         status |-> "ok", error |-> <<>>]]

\* lines 169-174, 181-182: the module-level state after import, or, when past
\* tasks were completed, with their history entries and the connection they made
Boot(past) ==
    /\ sync_queue = <<>>
    /\ unfinished_tasks = 0
    /\ _in_flight = {}
    /\ _in_flight_lock = Free
    /\ _plex = (IF past > 0 THEN 1 ELSE NoPlex)
    /\ plex_connects = (IF past > 0 THEN 1 ELSE 0)
    /\ _plex_lock = Free
    /\ _worker_alive = TRUE
    /\ exited = FALSE
    /\ history = PastHistory(past)
    /\ hpc = [h \in Handlers |-> "idle"]
    /\ hloc = [h \in Handlers |-> NoLocals]
    /\ hres = [h \in Handlers |-> NoResponse]
    /\ calls = 0
    /\ health_pc = "idle"
    /\ wpc = "loop"
    /\ loc = WorkerIdle
    /\ now = 0

Init ==
    /\ env \in Scenarios
    /\ \E c \in Configs :
         /\ USE_RCLONE = c.use_rclone
         /\ RCLONE_RC_URL = c.rc_url
         /\ MINIMUM_AGE = c.min_age
    /\ mapcall = NoMapCall
    /\ Boot(env.past)

\* ------------------------------------------------------------------------
\* enqueue_sync, run by the HTTP handler threads
\* ------------------------------------------------------------------------
\* a default section for the paths that are under no section root
ResolveSection_Default(mapped_folder) ==
    LET comp == Lower(RStrip(mapped_folder, "/"))
    IN  IF HasPrefix(SECTION_MAPPING, comp)
        THEN SECTION_MAPPING[LongestPrefix(SECTION_MAPPING, comp)]
        ELSE "1"

\* section_id = next((SECTION_MAPPING[p] for p in sorted(..., key=len, reverse=True)
\*                    if comp.startswith(p)), None)
ResolveSection(mapped_folder) ==
    LET comp == Lower(RStrip(mapped_folder, "/"))
    IN  IF HasPrefix(SECTION_MAPPING, comp)
        THEN SECTION_MAPPING[LongestPrefix(SECTION_MAPPING, comp)]
        ELSE None

\* return (response_dict, 200)
Return(h, response) ==
    /\ hpc' = [hpc EXCEPT ![h] = "respond"]
    /\ hres' = [hres EXCEPT ![h] = response]

\* lines 391-408: validate, map, resolve the section
EnqueueStart(h) ==
    /\ ~exited
    /\ hpc[h] = "idle"
    /\ h <= env.handlers
    /\ calls < env.calls
    /\ calls' = calls + 1
    /\ \E raw_path \in RawPaths :
         IF raw_path = <<>>
         THEN /\ Return(h, [status |-> "skipped", reason |-> "empty path"])
              /\ hloc' = [hloc EXCEPT ![h] = [NoLocals EXCEPT !.raw_path = raw_path]]
         ELSE LET mapped_folder == apply_path_mapping(raw_path, PATH_REPLACEMENTS, TRUE)
                  rclone_path   == IF USE_RCLONE
                                   THEN apply_path_mapping(raw_path, RCLONE_PATH_REPLACEMENTS, FALSE)
                                   ELSE <<>>
                  section_id    == ResolveSection(mapped_folder)
              IN  IF section_id = None
                  THEN /\ Return(h, [status |-> "skipped", reason |-> "no section mapping"])
                       /\ hloc' = [hloc EXCEPT ![h] =
                              [raw_path |-> raw_path, label |-> Label,
                               mapped_folder |-> mapped_folder,
                               rclone_path |-> rclone_path, section_id |-> section_id]]
                  ELSE /\ hpc' = [hpc EXCEPT ![h] = "acquire"]
                       /\ hloc' = [hloc EXCEPT ![h] =
                              [raw_path |-> raw_path, label |-> Label,
                               mapped_folder |-> mapped_folder,
                               rclone_path |-> rclone_path, section_id |-> section_id]]
                       /\ hres' = [hres EXCEPT ![h] = NoResponse]
    /\ UNCHANGED <<clockVars, cfgVars, statusVars, sharedVars, workerVars>>

\* lines 446, 473-488: the caller turns the result into the HTTP response
EnqueueRespond(h) ==
    /\ ~exited
    /\ hpc[h] = "respond"
    /\ hpc' = [hpc EXCEPT ![h] = "idle"]
    /\ hloc' = [hloc EXCEPT ![h] = NoLocals]
    /\ hres' = [hres EXCEPT ![h] = NoResponse]
    /\ UNCHANGED <<clockVars, cfgVars, statusVars, sharedVars, workerVars, calls>>

\* a lock that excludes nobody
CanAcquire_NoMutex(lock) == TRUE

\* threading.Lock.acquire(): blocks while another thread holds the lock
CanAcquire(lock) == lock = Free

\* line 411: with _in_flight_lock
EnqueueAcquire(h) ==
    /\ ~exited
    /\ hpc[h] = "acquire"
    /\ CanAcquire(_in_flight_lock)
    /\ _in_flight_lock' = h
    /\ hpc' = [hpc EXCEPT ![h] = "check"]
    /\ UNCHANGED <<clockVars, cfgVars, statusVars, sync_queue, unfinished_tasks, _in_flight, _plex,
                   plex_connects, _plex_lock, _worker_alive, exited, history, hloc, hres, calls,
                   workerVars>>

\* the membership test keyed on the raw path instead of the mapped folder
EnqueueCheck_RawKey(h) ==
    /\ ~exited
    /\ hpc[h] = "check"
    /\ IF hloc[h].raw_path \in _in_flight
       THEN /\ Return(h, [status |-> "deduplicated"])
            /\ _in_flight_lock' = Free
       ELSE /\ hpc' = [hpc EXCEPT ![h] = "add"]
            /\ UNCHANGED <<hres, _in_flight_lock>>
    /\ UNCHANGED <<clockVars, cfgVars, statusVars, sync_queue, unfinished_tasks, _in_flight, _plex,
                   plex_connects, _plex_lock, _worker_alive, exited, history, hloc, calls,
                   workerVars>>

\* lines 412-414: already queued or in flight -> deduplicated (the lock is released)
EnqueueCheck(h) ==
    /\ ~exited
    /\ hpc[h] = "check"
    /\ IF hloc[h].mapped_folder \in _in_flight
       THEN /\ Return(h, [status |-> "deduplicated"])
            /\ _in_flight_lock' = Free
       ELSE /\ hpc' = [hpc EXCEPT ![h] = "add"]
            /\ UNCHANGED <<hres, _in_flight_lock>>
    /\ UNCHANGED <<clockVars, cfgVars, statusVars, sync_queue, unfinished_tasks, _in_flight, _plex,
                   plex_connects, _plex_lock, _worker_alive, exited, history, hloc, calls,
                   workerVars>>

\* the insertion forgotten
EnqueueAdd_NoInsert(h) ==
    /\ ~exited
    /\ hpc[h] = "add"
    /\ _in_flight_lock' = Free
    /\ hpc' = [hpc EXCEPT ![h] = "put"]
    /\ UNCHANGED <<clockVars, cfgVars, statusVars, sync_queue, unfinished_tasks, _in_flight, _plex,
                   plex_connects, _plex_lock, _worker_alive, exited, history, hloc, hres, calls,
                   workerVars>>

\* line 415: _in_flight.add(mapped_folder), then the with block ends
EnqueueAdd(h) ==
    /\ ~exited
    /\ hpc[h] = "add"
    /\ _in_flight' = _in_flight \cup {hloc[h].mapped_folder}
    /\ _in_flight_lock' = Free
    /\ hpc' = [hpc EXCEPT ![h] = "put"]
    /\ UNCHANGED <<clockVars, cfgVars, statusVars, sync_queue, unfinished_tasks, _plex, plex_connects,
                   _plex_lock, _worker_alive, exited, history, hloc, hres, calls, workerVars>>

\* lines 417-427: build the task, sync_queue.put(task), return queued
EnqueuePut(h) ==
    /\ ~exited
    /\ hpc[h] = "put"
    /\ LET l == hloc[h]
           task == SyncTask(l.section_id, l.raw_path, l.rclone_path, l.mapped_folder,
                            l.mapped_folder, l.label, now)
       IN  /\ sync_queue' = Append(sync_queue, task)
           /\ unfinished_tasks' = unfinished_tasks + 1
           /\ Return(h, [status |-> "queued", path |-> l.mapped_folder])
    /\ UNCHANGED <<clockVars, cfgVars, statusVars, _in_flight, _in_flight_lock, _plex, plex_connects,
                   _plex_lock, _worker_alive, exited, history, hloc, calls, workerVars>>

\* ------------------------------------------------------------------------
\* What the outside world can answer
\* ------------------------------------------------------------------------
\* str(exc) of the exceptions the Plex library calls raise
TimeoutError == <<"R", "e", "a", "d", "T", "i", "m", "e", "o", "u", "t">>
NotFoundError == <<"N", "o", "t", "F", "o", "u", "n", "d">>
LibraryErrors == {TimeoutError, NotFoundError}
\* plex_instance is None: 'NoneType' object has no attribute 'library'
NoneTypeError == <<"N", "o", "n", "e", "T", "y", "p", "e">>
\* res.json() is not a dict: object has no attribute 'get'
AttributeError == <<"n", "o", " ", "g", "e", "t">>

\* "timeout" in str(exc).lower()
is_timeout(exc) == Contains(<<"t", "i", "m", "e", "o", "u", "t">>, Lower(exc))

\* items library.search can return for a folder: with .locations, or without
\* them and with .media parts
SearchItems(search_path) ==
    { [title |-> "folder", has_locations |-> TRUE, locations |-> <<search_path>>,
       has_media |-> FALSE, files |-> <<>>],
      [title |-> "file", has_locations |-> FALSE, locations |-> <<>>,
       has_media |-> TRUE, files |-> <<search_path \o <<"/", "f">> >>],
      [title |-> "other", has_locations |-> TRUE, locations |-> << <<"/", "q">> >>,
       has_media |-> TRUE, files |-> <<search_path>>],
      [title |-> "bare", has_locations |-> TRUE, locations |-> <<>>,
       has_media |-> FALSE, files |-> <<>>] }

SearchResults(search_path) ==
    {<<>>} \cup {<<a>> : a \in SearchItems(search_path)}
           \cup {<<a, b>> : a \in {r \in SearchItems(search_path) : r.title = "other"},
                            b \in {r \in SearchItems(search_path) : r.title # "other"}}

\* lines 372-375: the locations of a search result, and whether one holds the path
Locs(res) ==
    LET locs == IF res.has_locations THEN res.locations ELSE <<>>
    IN  IF locs = <<>> /\ res.has_media THEN res.files ELSE locs

LocMatches(search_path, res) ==
    \E k \in 1..Len(Locs(res)) : Contains(search_path, Locs(res)[k])

\* lines 371-376: the first result whose locations contain search_path, or None
FirstMatch(search_path, results) ==
    IF \E k \in 1..Len(results) : LocMatches(search_path, results[k])
    THEN results[CHOOSE k \in 1..Len(results) :
                    /\ LocMatches(search_path, results[k])
                    /\ \A j \in 1..(k - 1) : ~LocMatches(search_path, results[j])].title
    ELSE None

\* ------------------------------------------------------------------------
\* sync_worker
\* ------------------------------------------------------------------------
\* no handler at the task boundary: the exception ends the worker thread
Raise_Uncaught(exc) ==
    /\ wpc' = "stopped"
    /\ loc' = loc

\* lines 329-332: except Exception at the task boundary: status and message
\* are set and the finally block follows
Raise(exc) ==
    /\ wpc' = "discard"
    /\ loc' = [loc EXCEPT !.status = "error", !.error_msg = exc, !.caught = <<>>]

\* the last retry lost
ShouldRetry_OffByOne(exc, attempt) == is_timeout(exc) /\ attempt < 2

\* line 320: retry only a timeout, and only before the third attempt
ShouldRetry(exc, attempt) == is_timeout(exc) /\ attempt < 3

\* lines 319-327: except Exception inside the attempt loop
AttemptFailed(exc) ==
    IF ShouldRetry(exc, loc.attempt)
    THEN /\ wpc' = "invalidate"
         /\ loc' = [loc EXCEPT !.caught = <<>>]
    ELSE Raise(exc)

\* line 266: while _worker_alive.is_set()
WorkerLoop ==
    /\ ~exited
    /\ wpc = "loop"
    /\ wpc' = IF _worker_alive THEN "get" ELSE "stopped"
    /\ UNCHANGED <<clockVars, cfgVars, statusVars, sharedVars, handlerVars, loc>>

\* the in-flight entry released when the task is pulled, not when it is finished
WorkerGet_DiscardOnGet ==
    /\ ~exited
    /\ wpc = "get"
    /\ IF sync_queue = <<>>
       THEN /\ wpc' = "loop"
            /\ UNCHANGED <<sync_queue, loc, _in_flight>>
       ELSE /\ sync_queue' = Tail(sync_queue)
            /\ _in_flight' = _in_flight \ {Head(sync_queue).mapped_folder}
            /\ loc' = [WorkerIdle EXCEPT !.task = Head(sync_queue), !.status = "ok"]
            /\ wpc' = "delay"
    /\ UNCHANGED <<clockVars, cfgVars, statusVars, unfinished_tasks, _in_flight_lock, _plex, plex_connects,
                   _plex_lock, _worker_alive, exited, history, handlerVars>>

\* lines 267-274: sync_queue.get(timeout=1); queue.Empty -> continue
WorkerGet ==
    /\ ~exited
    /\ wpc = "get"
    /\ IF sync_queue = <<>>
       THEN /\ wpc' = "loop"
            /\ UNCHANGED <<sync_queue, loc>>
       ELSE /\ sync_queue' = Tail(sync_queue)
            /\ loc' = [WorkerIdle EXCEPT !.task = Head(sync_queue), !.status = "ok"]
            /\ wpc' = "delay"
    /\ UNCHANGED <<clockVars, cfgVars, statusVars, unfinished_tasks, _in_flight, _in_flight_lock, _plex,
                   plex_connects, _plex_lock, _worker_alive, exited, history, handlerVars>>

\* a worker that starts on a task as soon as it has pulled it
Remaining_NoDelay(task) == 0

\* lines 278-279: elapsed = time.monotonic() - task.queued_at
\*                remaining = WEBHOOK_DELAY - elapsed
Remaining(task) == WEBHOOK_DELAY - (now - task.queued_at)

\* lines 277-283: if WEBHOOK_DELAY > 0 and remaining > 0, go to sleep for
\* the remaining time
WorkerDelay ==
    /\ ~exited
    /\ wpc = "delay"
    /\ IF WEBHOOK_DELAY > 0 /\ Remaining(loc.task) > 0
       THEN /\ wpc' = "sleep"
            /\ loc' = [loc EXCEPT !.wake = now + Remaining(loc.task)]
       ELSE /\ wpc' = "rclone"
            /\ loc' = loc
    /\ UNCHANGED <<clockVars, cfgVars, statusVars, sharedVars, handlerVars>>

\* time.sleep(secs) returns when at least secs have passed
Elapsed(wake) == env.clock => now >= wake

\* line 283: time.sleep(remaining) returns
WorkerSleep ==
    /\ ~exited
    /\ wpc = "sleep"
    /\ Elapsed(loc.wake)
    /\ wpc' = "rclone"
    /\ loc' = [loc EXCEPT !.wake = 0]
    /\ UNCHANGED <<clockVars, cfgVars, statusVars, sharedVars, handlerVars>>

\* lines 233-239: the directory sent to rclone
RcloneTarget(host_path) ==
    LET full == RStrip(host_path, "/")
        root == RStrip(RCLONE_MOUNT_ROOT, "/")
    IN  IF root # <<>> /\ StartsWith(full, root)
        THEN LStrip(DropFirst(full, Len(root)), "/")
        ELSE full

\* only the missing URL skips the calls
RcloneSkipped_UrlOnly == RCLONE_RC_URL = ""

\* lines 226-230: rclone_vfs_refresh returns at once when the integration is off
RcloneSkipped == ~USE_RCLONE \/ RCLONE_RC_URL = ""

\* lines 226-246: rclone_vfs_refresh up to the vfs/forget request
WorkerRcloneForget ==
    /\ ~exited
    /\ wpc = "rclone"
    /\ IF RcloneSkipped
       THEN wpc' = "age"
       ELSE \E answer \in {"response"} \cup Faults({"RequestException"}) :
                wpc' = IF answer = "response" THEN "refresh" ELSE "age"
    /\ UNCHANGED <<clockVars, cfgVars, statusVars, sharedVars, handlerVars, loc>>

\* lines 248-257: the vfs/refresh request and the handling of its response; only
\* requests.RequestException is caught, what res.json().get raises propagates
WorkerRcloneRefresh ==
    /\ ~exited
    /\ wpc = "refresh"
    /\ \E answer \in {"ok_json_object"}
                      \cup Faults({"ok_json_not_object", "not_ok", "RequestException"}) :
         IF answer = "ok_json_not_object"
         THEN Raise(AttributeError)
         ELSE /\ wpc' = "age"
              /\ loc' = loc
    /\ UNCHANGED <<clockVars, cfgVars, statusVars, sharedVars, handlerVars>>

\* lines 289-298: minimum file age: the path is missing, too young (sleep) or
\* old enough; in each case the worker goes on to line 301
WorkerAge ==
    /\ ~exited
    /\ wpc = "age"
    /\ IF MINIMUM_AGE > 0
       THEN \E answer \in {"missing", "young", "old"} : wpc' = "get_plex"
       ELSE wpc' = "get_plex"
    /\ loc' = [loc EXCEPT !.ret = "scan_if"]
    /\ UNCHANGED <<clockVars, cfgVars, statusVars, sharedVars, handlerVars>>

\* line 187: with _plex_lock
WorkerGetPlexAcquire ==
    /\ ~exited
    /\ wpc = "get_plex"
    /\ CanAcquire(_plex_lock)
    /\ _plex_lock' = WorkerThread
    /\ wpc' = "connect"
    /\ UNCHANGED <<clockVars, cfgVars, statusVars, sync_queue, unfinished_tasks, _in_flight,
                   _in_flight_lock, _plex, plex_connects, _worker_alive, exited, history,
                   handlerVars, loc>>

\* a connection made at every call
GetPlexBody_AlwaysConnect ==
    /\ _plex' = plex_connects + 1
    /\ plex_connects' = plex_connects + 1

\* lines 188-194: connect if there is no cached connection; a failed connect is
\* logged and leaves None
GetPlexBody ==
    IF _plex = NoPlex
    THEN \E connected \in {TRUE} \cup Faults({FALSE}) :
             IF connected
             THEN /\ _plex' = plex_connects + 1
                  /\ plex_connects' = plex_connects + 1
             ELSE /\ _plex' = NoPlex
                  /\ plex_connects' = plex_connects
    ELSE /\ _plex' = _plex
         /\ plex_connects' = plex_connects

\* lines 188-194 in the worker: the body of get_plex, then return _plex (lines
\* 301 and 324 assign plex_instance)
WorkerGetPlexConnect ==
    /\ ~exited
    /\ wpc = "connect"
    /\ GetPlexBody
    /\ _plex_lock' = Free
    /\ loc' = [loc EXCEPT !.plex_instance = _plex', !.ret = None]
    /\ wpc' = loc.ret
    /\ UNCHANGED <<clockVars, cfgVars, statusVars, sync_queue, unfinished_tasks, _in_flight,
                   _in_flight_lock, _worker_alive, exited, history, handlerVars>>

\* lines 302-303: if plex_instance: for attempt in range(1, 4)
WorkerScanIf ==
    /\ ~exited
    /\ wpc = "scan_if"
    /\ IF loc.plex_instance # NoPlex
       THEN /\ wpc' = "sectionByID"
            /\ loc' = [loc EXCEPT !.attempt = 1]
       ELSE /\ wpc' = "discard"
            /\ loc' = loc
    /\ UNCHANGED <<clockVars, cfgVars, statusVars, sharedVars, handlerVars>>

\* the rescan of the path as it was received
RescanRequest_RawPath(task) == [section_id |-> task.section_id, path |-> task.raw_path]

\* lines 305-307: the section looked up by task.section_id is asked to
\* update(path=task.mapped_folder)
RescanRequest(task) == [section_id |-> task.section_id, path |-> task.mapped_folder]

\* line 305: library = plex_instance.library.sectionByID(task.section_id); when
\* it returns, line 307 sends the rescan request
WorkerSectionByID ==
    /\ ~exited
    /\ wpc = "sectionByID"
    /\ IF loc.plex_instance = NoPlex
       THEN AttemptFailed(NoneTypeError)
       ELSE \/ /\ wpc' = "update"
               /\ loc' = [loc EXCEPT !.scans = Append(@, RescanRequest(loc.task))]
            \/ \E exc \in Faults(LibraryErrors) : AttemptFailed(exc)
    /\ UNCHANGED <<clockVars, cfgVars, statusVars, sharedVars, handlerVars>>

\* lines 307-309: the answer of library.update(path=task.mapped_folder), then
\* the settle sleep and the first round of _find_plex_item
WorkerUpdate ==
    /\ ~exited
    /\ wpc = "update"
    /\ \/ /\ wpc' = "query"
          /\ loc' = [loc EXCEPT !.i = 0]
       \/ \E exc \in Faults(LibraryErrors) : AttemptFailed(exc)
    /\ UNCHANGED <<clockVars, cfgVars, statusVars, sharedVars, handlerVars>>

\* lines 359-367: strategy A, the path query; a timeout propagates, any other
\* exception is swallowed
WorkerQuery ==
    /\ ~exited
    /\ wpc = "query"
    /\ \/ /\ wpc' = "analyze"
          /\ loc' = [loc EXCEPT !.item = "byPath", !.caught = <<>>]
       \/ /\ wpc' = "search"
          /\ loc' = [loc EXCEPT !.caught = <<>>]
       \/ \E exc \in Faults(LibraryErrors) :
            IF is_timeout(exc)
            THEN AttemptFailed(exc)
            ELSE /\ wpc' = "search"
                 /\ loc' = [loc EXCEPT !.caught = exc]
    /\ UNCHANGED <<clockVars, cfgVars, statusVars, sharedVars, handlerVars>>

\* one round too few
NextRound_FiveRounds(l) ==
    IF l.i + 1 < 5
    THEN /\ wpc' = "query"
         /\ loc' = [l EXCEPT !.i = l.i + 1]
    ELSE /\ wpc' = "discard"
         /\ loc' = [l EXCEPT !.i = l.i + 1]

\* lines 357, 380-382 and 315-317: the round found nothing: sleep and go round
\* again, or after the sixth round return None, and the attempt loop breaks
NextRound(l) ==
    IF l.i + 1 < 6
    THEN /\ wpc' = "query"
         /\ loc' = [l EXCEPT !.i = l.i + 1]
    ELSE /\ wpc' = "discard"
         /\ loc' = [l EXCEPT !.i = l.i + 1]

\* lines 370-380: strategy B, the title search; every exception is swallowed
WorkerSearch ==
    /\ ~exited
    /\ wpc = "search"
    /\ LET search_path == RStrip(loc.task.mapped_folder, "/")
       IN  \/ \E results \in SearchResults(search_path) :
                LET found == FirstMatch(search_path, results)
                IN  IF found # None
                    THEN /\ wpc' = "analyze"
                         /\ loc' = [loc EXCEPT !.item = found, !.caught = <<>>]
                    ELSE NextRound([loc EXCEPT !.caught = <<>>])
           \/ \E exc \in Faults(LibraryErrors) : NextRound([loc EXCEPT !.caught = exc])
    /\ UNCHANGED <<clockVars, cfgVars, statusVars, sharedVars, handlerVars>>

\* lines 312-317: item.analyze() inside the attempt's try, then break
WorkerAnalyze ==
    /\ ~exited
    /\ wpc = "analyze"
    /\ \/ /\ wpc' = "discard"
          /\ loc' = loc
       \/ \E exc \in Faults(LibraryErrors) : AttemptFailed(exc)
    /\ UNCHANGED <<clockVars, cfgVars, statusVars, sharedVars, handlerVars>>

\* line 323 (lines 197-201): invalidate_plex()
WorkerInvalidate ==
    /\ ~exited
    /\ wpc = "invalidate"
    /\ CanAcquire(_plex_lock)
    /\ _plex' = NoPlex
    /\ wpc' = "get_plex"
    /\ loc' = [loc EXCEPT !.ret = "backoff"]
    /\ UNCHANGED <<clockVars, cfgVars, statusVars, sync_queue, unfinished_tasks, _in_flight,
                   _in_flight_lock, plex_connects, _plex_lock, _worker_alive, exited, history,
                   handlerVars>>

\* line 325 and the next iteration of the attempt loop
WorkerBackoff ==
    /\ ~exited
    /\ wpc = "backoff"
    /\ wpc' = "sectionByID"
    /\ loc' = [loc EXCEPT !.attempt = loc.attempt + 1, !.i = 0, !.item = None]
    /\ UNCHANGED <<clockVars, cfgVars, statusVars, sharedVars, handlerVars>>

\* a finally block that leaves the in-flight entry in the set
WorkerDiscard_KeepEntry ==
    /\ ~exited
    /\ wpc = "discard"
    /\ CanAcquire(_in_flight_lock)
    /\ wpc' = "history_add"
    /\ loc' = [WorkerIdle EXCEPT !.task = loc.task, !.status = loc.status,
                                 !.error_msg = loc.error_msg, !.scans = loc.scans]
    /\ UNCHANGED <<clockVars, cfgVars, statusVars, sync_queue, unfinished_tasks, _in_flight,
                   _in_flight_lock, _plex, plex_connects, _plex_lock, _worker_alive, exited,
                   history, handlerVars>>

\* lines 334-335: with _in_flight_lock: _in_flight.discard(task.mapped_folder);
\* the locals of the attempt loop are not read again and are dropped here
WorkerDiscard ==
    /\ ~exited
    /\ wpc = "discard"
    /\ CanAcquire(_in_flight_lock)
    /\ _in_flight' = _in_flight \ {loc.task.mapped_folder}
    /\ wpc' = "history_add"
    /\ loc' = [WorkerIdle EXCEPT !.task = loc.task, !.status = loc.status,
                                 !.error_msg = loc.error_msg, !.scans = loc.scans]
    /\ UNCHANGED <<clockVars, cfgVars, statusVars, sync_queue, unfinished_tasks, _in_flight_lock, _plex,
                   plex_connects, _plex_lock, _worker_alive, exited, history, handlerVars>>

\* lines 337-345 (ts and duration_s are not modelled)
HistoryEntry(l) ==
    [label |-> l.task.label, path |-> l.task.mapped_folder,
     status |-> l.status, error |-> l.error_msg]

WorkerHistoryAdd ==
    /\ ~exited
    /\ wpc = "history_add"
    /\ history' = AppendLeft(history, HistoryEntry(loc))
    /\ wpc' = "task_done"
    /\ UNCHANGED <<clockVars, cfgVars, statusVars, sync_queue, unfinished_tasks, _in_flight,
                   _in_flight_lock, _plex, plex_connects, _plex_lock, _worker_alive, exited,
                   handlerVars, loc>>

\* line 346: sync_queue.task_done(), then back to the while test
WorkerTaskDone ==
    /\ ~exited
    /\ wpc = "task_done"
    /\ unfinished_tasks' = unfinished_tasks - 1
    /\ wpc' = "loop"
    /\ loc' = WorkerIdle
    /\ UNCHANGED <<clockVars, cfgVars, statusVars, sync_queue, _in_flight, _in_flight_lock, _plex,
                   plex_connects, _plex_lock, _worker_alive, exited, history, handlerVars>>

\* ------------------------------------------------------------------------
\* GET /health
\* ------------------------------------------------------------------------
\* line 493 (line 187): health() calls get_plex(): with _plex_lock
HealthAcquire ==
    /\ ~exited
    /\ env.health
    /\ health_pc = "idle"
    /\ CanAcquire(_plex_lock)
    /\ _plex_lock' = HealthThread
    /\ health_pc' = "connect"
    /\ UNCHANGED <<clockVars, cfgVars, sync_queue, unfinished_tasks, _in_flight, _in_flight_lock, _plex,
                   plex_connects, _worker_alive, exited, history, handlerVars, workerVars>>

\* lines 188-194, then lines 494-501: the body of get_plex; the response is
\* built from reads of the queue size, the worker flag and the history
HealthConnect ==
    /\ ~exited
    /\ health_pc = "connect"
    /\ GetPlexBody
    /\ _plex_lock' = Free
    /\ health_pc' = "idle"
    /\ UNCHANGED <<clockVars, cfgVars, sync_queue, unfinished_tasks, _in_flight, _in_flight_lock,
                   _worker_alive, exited, history, handlerVars, workerVars>>

\* ------------------------------------------------------------------------
\* Shutdown
\* ------------------------------------------------------------------------
\* line 743: _worker_alive.clear()
HandleShutdown ==
    /\ ~exited
    /\ env.signals
    /\ _worker_alive
    /\ _worker_alive' = FALSE
    /\ UNCHANGED <<clockVars, cfgVars, statusVars, sync_queue, unfinished_tasks, _in_flight,
                   _in_flight_lock, _plex, plex_connects, _plex_lock, exited, history,
                   handlerVars, workerVars>>

\* line 744: sys.exit(0) ends the main thread; the worker is a daemon thread
\* (line 754) and ends with the process, wherever it is
ProcessExit ==
    /\ ~exited
    /\ ~_worker_alive
    /\ exited' = TRUE
    /\ UNCHANGED <<clockVars, cfgVars, statusVars, sync_queue, unfinished_tasks, _in_flight,
                   _in_flight_lock, _plex, plex_connects, _plex_lock, _worker_alive, history,
                   handlerVars, workerVars>>

\* time passes while the threads run, wait or sleep
Tick ==
    /\ env.clock
    /\ now < MaxTime
    /\ now' = now + TickSeconds
    /\ UNCHANGED <<cfgVars, sharedVars, handlerVars, statusVars, workerVars>>

\* ------------------------------------------------------------------------
\* Specification
\* ------------------------------------------------------------------------
Next ==
    \/ \E h \in Handlers : EnqueueStart(h)
    \/ \E h \in Handlers : EnqueueAcquire(h)
    \/ \E h \in Handlers : EnqueueCheck(h)
    \/ \E h \in Handlers : EnqueueAdd(h)
    \/ \E h \in Handlers : EnqueuePut(h)
    \/ \E h \in Handlers : EnqueueRespond(h)
    \/ WorkerLoop
    \/ WorkerGet
    \/ WorkerDelay
    \/ WorkerSleep
    \/ WorkerRcloneForget
    \/ WorkerRcloneRefresh
    \/ WorkerAge
    \/ WorkerGetPlexAcquire
    \/ WorkerGetPlexConnect
    \/ WorkerScanIf
    \/ WorkerSectionByID
    \/ WorkerUpdate
    \/ WorkerQuery
    \/ WorkerSearch
    \/ WorkerAnalyze
    \/ WorkerInvalidate
    \/ WorkerBackoff
    \/ WorkerDiscard
    \/ WorkerHistoryAdd
    \/ WorkerTaskDone
    \/ HealthAcquire
    \/ HealthConnect
    \/ HandleShutdown
    \/ ProcessExit
    \/ Tick

Spec == Init /\ [][Next]_vars

\* ------------------------------------------------------------------------
\* The service without a shutdown, its threads scheduled fairly and every
\* external call returning or raising
\* ------------------------------------------------------------------------
\* the runs in which one webhook meets an outside world that may fail every
\* call while GET /health is served, and those in which two webhooks follow
\* each other after earlier tasks
LiveInit == Init /\ (env.health \/ env.past > 0)

\* a step of the worker thread
WorkerStep ==
    \/ WorkerLoop
    \/ WorkerGet
    \/ WorkerDelay
    \/ WorkerSleep
    \/ WorkerRcloneForget
    \/ WorkerRcloneRefresh
    \/ WorkerAge
    \/ WorkerGetPlexAcquire
    \/ WorkerGetPlexConnect
    \/ WorkerScanIf
    \/ WorkerSectionByID
    \/ WorkerUpdate
    \/ WorkerQuery
    \/ WorkerSearch
    \/ WorkerAnalyze
    \/ WorkerInvalidate
    \/ WorkerBackoff
    \/ WorkerDiscard
    \/ WorkerHistoryAdd
    \/ WorkerTaskDone

\* a step of a handler thread that has a webhook to serve
HandlerStep(h) ==
    \/ EnqueueAcquire(h)
    \/ EnqueueCheck(h)
    \/ EnqueueAdd(h)
    \/ EnqueuePut(h)
    \/ EnqueueRespond(h)

\* a step of the thread that serves GET /health
HealthStep ==
    \/ HealthAcquire
    \/ HealthConnect

LiveNext ==
    \/ \E h \in Handlers : EnqueueStart(h)
    \/ \E h \in Handlers : HandlerStep(h)
    \/ WorkerStep
    \/ HealthStep

\* a thread that can take a step takes it; a thread that waits for a lock that
\* is released again and again gets it
LiveSpec ==
    /\ LiveInit
    /\ [][LiveNext]_vars
    /\ SF_vars(WorkerStep)
    /\ \A h \in Handlers : SF_vars(HandlerStep(h))
    /\ WF_vars(HealthConnect)

\* ------------------------------------------------------------------------
\* The path mapper on its own: apply_path_mapping called in both modes on a
\* path and a table loaded by parse_json_env
\* ------------------------------------------------------------------------
\* the JSON documents of the mapping variable
MapTables ==
    { <<>>,
      << << <<"/", "a", "/">>, <<"/", "x", "/">> >>,
         << <<"/", "a", "/", "b", "/">>, <<"/", "y", "/">> >> >>,
      << << <<"/", "a">>, <<"/", "x">> >>,
         << <<"/", "a", "/", "b">>, <<"/", "y">> >> >>,
      << << <<"/", "A", "/">>, <<>> >> >> }

\* the paths that are mapped
MapPaths ==
    { <<>>,
      <<"/">>,
      <<" ">>,
      <<"/", "a">>,
      <<"/", "a", "/", "c">>,
      <<"/", "a", "/", "b", "c">>,
      <<"/", "a", "/", "b", "/", "c">>,
      <<"/", "a", "/", "b", "/", "c", "/">>,
      <<"/", "A", "/", "B", "/", "c">>,
      <<"\\", "a", "\\", "b", "\\", "c">>,
      <<" ", "/", "a", "/", "b", "/", "c", " ">>,
      <<"/", "q", "/", "r">> }

MapInit ==
    /\ env = [calls |-> 0, handlers |-> 0, faults |-> FALSE, signals |-> FALSE, health |-> FALSE,
              past |-> 0, clock |-> FALSE]
    /\ USE_RCLONE = FALSE
    /\ RCLONE_RC_URL = ""
    /\ MINIMUM_AGE = 0
    /\ \E path \in MapPaths, data \in MapTables :
         mapcall = [path |-> path, data |-> data, dir_mode |-> <<>>, file_mode |-> <<>>]
    /\ Boot(0)

\* apply_path_mapping(path, mapping, label, is_dir=True)
MapDirectory ==
    /\ mapcall.dir_mode = <<>>
    /\ mapcall' = [mapcall EXCEPT !.dir_mode =
                      <<apply_path_mapping(mapcall.path, parse_json_env(mapcall.data), TRUE)>>]
    /\ UNCHANGED <<clockVars, env, USE_RCLONE, RCLONE_RC_URL, MINIMUM_AGE, statusVars, sharedVars,
                   handlerVars, workerVars>>

\* apply_path_mapping(path, mapping, label, is_dir=False)
MapFile ==
    /\ mapcall.file_mode = <<>>
    /\ mapcall' = [mapcall EXCEPT !.file_mode =
                      <<apply_path_mapping(mapcall.path, parse_json_env(mapcall.data), FALSE)>>]
    /\ UNCHANGED <<clockVars, env, USE_RCLONE, RCLONE_RC_URL, MINIMUM_AGE, statusVars, sharedVars,
                   handlerVars, workerVars>>

MapNext == MapDirectory \/ MapFile

MapSpec == MapInit /\ [][MapNext]_vars

\* ------------------------------------------------------------------------
\* Vocabulary of the properties
\* ------------------------------------------------------------------------
\* the libraryPaths the raw paths map to
LibraryPaths == {apply_path_mapping(r, PATH_REPLACEMENTS, TRUE) : r \in RawPaths \ {<<>>}}

\* positions of the queue that hold a task for p
InQueue(p) == {k \in 1..Len(sync_queue) : sync_queue[k].mapped_folder = p}

\* handler threads that have inserted p and have not yet put their task
Putting(p) == {h \in Handlers : hpc[h] = "put" /\ hloc[h].mapped_folder = p}

\* the worker has pulled a task and has not yet reached the history record
\* and task_done of its finally block
ProcessingSteps ==
    {"delay", "sleep", "rclone", "refresh", "age", "get_plex", "connect", "scan_if", "sectionByID",
     "update", "query", "search", "analyze", "invalidate", "backoff"}

\* the worker holds a task for p and has not yet released its in-flight entry
Working(p) == wpc \in ProcessingSteps \cup {"discard"} /\ loc.task.mapped_folder = p

\* a task for p is queued or being processed
TaskInFlight(p) == InQueue(p) # {} \/ Putting(p) # {} \/ Working(p)

\* the worker is in the finally block of a task for p, past the release
Finalizing(p) == wpc \in {"history_add", "task_done"} /\ loc.task.mapped_folder = p

\* ------------------------------------------------------------------------
\* C1
\* ------------------------------------------------------------------------
\* C1: an enqueue for a libraryPath returns queued when no task for that path is
\* queued or being processed (the first admission, and again after that task
\* has completed), and returns deduplicated when one is, whatever raw path it
\* was called with.
C1_Dedup ==
    [][\A h \in Handlers :
         LET p == hloc[h].mapped_folder
         IN  /\ (hpc[h] = "check" /\ hpc'[h] # "check") =>
                    IF TaskInFlight(p)
                    THEN hpc'[h] = "respond" /\ hres'[h] = [status |-> "deduplicated"]
                    ELSE hpc'[h] = "add"
             /\ (hpc[h] = "add" /\ hpc'[h] # "add") => hpc'[h] = "put"
             /\ (hpc[h] = "put" /\ hpc'[h] # "put") =>
                    /\ hpc'[h] = "respond"
                    /\ hres'[h] = [status |-> "queued", path |-> p]]_vars

\* a call is answered queued for a path whose earlier task is already in the history
C1_Witness ==
    \E h \in Handlers :
        /\ env.past = 0
        /\ hpc[h] = "respond"
        /\ hres[h].status = "queued"
        /\ \E k \in 1..Len(history) : history[k].path = hloc[h].mapped_folder
        /\ wpc \in {"loop", "get"}

\* ------------------------------------------------------------------------
\* C2
\* ------------------------------------------------------------------------
\* C2: of the enqueue calls that run concurrently for one libraryPath exactly one
\* is admitted: a call passes the membership test only while no other call for
\* the path is between its test and its put; the admitted call pushes exactly
\* its one task and returns queued, a deduplicated call pushes nothing and
\* leaves the InFlightSet alone.
C2_Atomic ==
    [][\A h \in Handlers :
         LET p == hloc[h].mapped_folder
         IN  /\ (hpc[h] = "check" /\ hpc'[h] = "add") =>
                    \A g \in Handlers \ {h} :
                        ~(hpc[g] \in {"check", "add", "put"} /\ hloc[g].mapped_folder = p)
             /\ (hpc[h] = "check" /\ hpc'[h] = "respond") =>
                    /\ hres'[h] = [status |-> "deduplicated"]
                    /\ sync_queue' = sync_queue
                    /\ _in_flight' = _in_flight
             /\ (hpc[h] = "put" /\ hpc'[h] = "respond") =>
                    /\ hres'[h].status = "queued"
                    /\ Len(sync_queue') = Len(sync_queue) + 1
                    /\ sync_queue'[Len(sync_queue')].mapped_folder = p
                    /\ \A g \in Handlers \ {h} :
                        ~(hpc'[g] \in {"add", "put"} /\ hloc'[g].mapped_folder = p)]_vars

\* two calls with different raw paths for one libraryPath overlap: one is admitted
\* and has not yet put its task, the other is already answered deduplicated
C2_Witness ==
    \E h, g \in Handlers :
        /\ hpc[h] = "put"
        /\ hpc[g] = "respond"
        /\ hres[g].status = "deduplicated"
        /\ hloc[g].mapped_folder = hloc[h].mapped_folder
        /\ hloc[g].raw_path # hloc[h].raw_path

\* ------------------------------------------------------------------------
\* C3
\* ------------------------------------------------------------------------
\* C3: for each libraryPath at most one task is admitted and not yet released
\* (about to be put, queued, or being processed); so when the worker has pulled
\* a task no task for the same libraryPath is left in the queue.
C3_AtMostOne ==
    /\ \A p \in LibraryPaths :
         Cardinality(InQueue(p)) + Cardinality(Putting(p)) + (IF Working(p) THEN 1 ELSE 0) <= 1
    /\ wpc \in ProcessingSteps => InQueue(loc.task.mapped_folder) = {}

\* the worker has just pulled a task while another task waits in the queue and a
\* call has been answered deduplicated
C3_Witness ==
    /\ wpc = "delay"
    /\ sync_queue # <<>>
    /\ \E h \in Handlers : hpc[h] = "respond" /\ hres[h].status = "deduplicated"

\* ------------------------------------------------------------------------
\* C4
\* ------------------------------------------------------------------------
\* C4 as stated: at the moment a libraryPath is removed from the InFlightSet its
\* task is neither queued nor in a processing step, and no task for the same
\* libraryPath is admitted before the history entry of the earlier task has been
\* appended and the task marked done.
C4_Original ==
    [][\A p \in LibraryPaths :
         /\ (p \in _in_flight /\ p \notin _in_flight') =>
                /\ InQueue(p) = {}
                /\ ~(wpc' \in ProcessingSteps /\ loc'.task.mapped_folder = p)
         /\ (p \notin _in_flight /\ p \in _in_flight') => ~Finalizing(p)]_vars

\* C4 amended: a libraryPath is removed from the InFlightSet only by the worker, as
\* the first step of Finalize of the task it holds for that path, when that
\* task is neither queued nor in a processing step; and a task for the path is
\* admitted only when none is queued or being processed (it may be admitted
\* while the earlier one is between the removal and task_done).
C4_Amended ==
    [][\A p \in LibraryPaths :
         /\ (p \in _in_flight /\ p \notin _in_flight') =>
                /\ wpc = "discard" /\ wpc' = "history_add"
                /\ loc.task.mapped_folder = p
                /\ InQueue(p) = {} /\ Putting(p) = {}
         /\ (p \notin _in_flight /\ p \in _in_flight') => ~TaskInFlight(p)]_vars

\* a task for the path is admitted again while the worker has not yet appended
\* the history entry of the earlier one
C4_Witness ==
    /\ wpc = "history_add"
    /\ loc.task.mapped_folder \in _in_flight
    /\ InQueue(loc.task.mapped_folder) # {}

\* ------------------------------------------------------------------------
\* C5
\* ------------------------------------------------------------------------
\* the task has failed with a timeout-class error
TimedOut(l) == l.status = "error" /\ is_timeout(l.error_msg)

\* the steps of one attempt of the rescan
AttemptSteps == {"sectionByID", "update", "query", "search", "analyze"}

C6_FailureIsolated ==
    [][/\ (loc.status = "ok" /\ loc'.status = "error") =>
              /\ wpc \in ProcessingSteps /\ wpc' = "discard"
              /\ loc'.error_msg \in LibraryErrors \cup {NoneTypeError, AttributeError}
              /\ loc'.task = loc.task
       /\ wpc \in ProcessingSteps => wpc' \in ProcessingSteps \cup {"discard"}
       /\ (wpc = "discard" /\ wpc' # wpc) =>
              /\ wpc' = "history_add"
              /\ loc.task.mapped_folder \notin _in_flight'
              /\ loc'.task = loc.task
              /\ loc'.status = loc.status /\ loc'.error_msg = loc.error_msg
       /\ (wpc = "history_add" /\ wpc' # wpc) =>
              /\ wpc' = "task_done"
              /\ history'[1] = [label |-> loc.task.label, path |-> loc.task.mapped_folder,
                                status |-> loc.status, error |-> loc.error_msg]
       /\ (wpc = "task_done" /\ wpc' # wpc) => wpc' = "loop"
       /\ (wpc = "loop" /\ wpc' # wpc) => wpc' = IF _worker_alive THEN "get" ELSE "stopped"
       /\ (wpc # "stopped" /\ wpc' = "stopped") => wpc = "loop"
       /\ (wpc = "get" /\ wpc' # wpc /\ sync_queue # <<>>) =>
              /\ wpc' = "delay"
              /\ loc'.task = Head(sync_queue)
              /\ loc'.status = "ok"]_vars

\* after a task was recorded with status error the worker is rescanning the next task
C6_Witness ==
    /\ history # <<>>
    /\ history[1].status = "error"
    /\ wpc = "update"
    /\ loc.task.mapped_folder # history[1].path

\* ------------------------------------------------------------------------
\* C7
\* ------------------------------------------------------------------------
\* C7: whatever item.analyze() does, the step after it is the end of the task
\* with status ok; no further rescan attempt is made because of it.
C7_AnalysisAdvisory ==
    [][(wpc = "analyze" /\ wpc' # wpc) => (wpc' = "discard" /\ loc'.status = "ok")]_vars

\* ------------------------------------------------------------------------
\* C8
\* ------------------------------------------------------------------------
\* C8: a reconciliation round is one of the rounds 1..6 (i = 0..5); when the
\* sixth round has found nothing the worker is at the end of the task with
\* status ok and no item (not in a retry); and a task that ends with status ok
\* after a rescan without an item has run exactly 6 rounds.
C8_SixRounds ==
    /\ wpc \in {"query", "search"} => loc.i \in 0..5
    /\ loc.i = 6 => (wpc = "discard" /\ loc.status = "ok" /\ loc.item = None)
    /\ (wpc = "discard" /\ loc.status = "ok" /\ loc.attempt >= 1 /\ loc.item = None) => loc.i = 6

\* the rescan was issued, six rounds found nothing, the task ends with status ok
C8_Witness ==
    /\ wpc = "discard"
    /\ loc.i = 6
    /\ loc.status = "ok"
    /\ loc.attempt >= 1

\* ------------------------------------------------------------------------
\* C9
\* ------------------------------------------------------------------------
\* C9: an item that the title search returns and whose locations contain the
\* target path is accepted in the round that searched for it, and the task that
\* accepted it ends with status ok.
C9_TitleFallback ==
    [][/\ (wpc = "search" /\ wpc' = "analyze") =>
              /\ loc'.i = loc.i
              /\ loc'.item \in {"folder", "file"}
       /\ (wpc' = "discard" /\ loc'.item \in {"folder", "file"}) => loc'.status = "ok"]_vars

\* ------------------------------------------------------------------------
\* C10
\* ------------------------------------------------------------------------
\* C10: whatever the forget and refresh calls answer, the cache-refresh step is
\* followed by the age gate, with the status of the task still ok.
C10_RefreshAdvisory ==
    [][(wpc \in {"rclone", "refresh"} /\ wpc' # wpc) =>
           (wpc' \in {"refresh", "age"} /\ loc'.status = "ok")]_vars

\* ------------------------------------------------------------------------
\* C11
\* ------------------------------------------------------------------------
\* the libraryPath lies under a configured section root
UnderSectionRoot(p) ==
    \E root \in DOMAIN SECTION_MAPPING : StartsWith(Lower(RStrip(p, "/")), root)

\* C11: an enqueue call with an empty path returns skipped 'empty path', one
\* whose mapped libraryPath is under no section root returns skipped 'no section
\* mapping'; neither changes the queue, the InFlightSet or the history, and only
\* a call with a path under a section root goes on to the admission test, so
\* every task that is put has such a path.
C11_SkippedNoEffect ==
    [][/\ \A h \in Handlers :
            (hpc[h] = "idle" /\ hpc'[h] # "idle") =>
                LET raw == hloc'[h].raw_path
                    p   == apply_path_mapping(raw, PATH_REPLACEMENTS, TRUE)
                    unchanged == /\ sync_queue' = sync_queue
                                 /\ unfinished_tasks' = unfinished_tasks
                                 /\ _in_flight' = _in_flight
                                 /\ history' = history
                IN  IF raw = <<>>
                    THEN /\ hpc'[h] = "respond"
                         /\ hres'[h] = [status |-> "skipped", reason |-> "empty path"]
                         /\ unchanged
                    ELSE IF ~UnderSectionRoot(p)
                    THEN /\ hpc'[h] = "respond"
                         /\ hres'[h] = [status |-> "skipped", reason |-> "no section mapping"]
                         /\ unchanged
                    ELSE /\ hpc'[h] = "acquire"
                         /\ hloc'[h].mapped_folder = p
       /\ Len(sync_queue') > Len(sync_queue) =>
            /\ sync_queue'[Len(sync_queue')].raw_path # <<>>
            /\ UnderSectionRoot(sync_queue'[Len(sync_queue')].mapped_folder)]_vars

\* with a task in flight, one call has been answered skipped for its empty path
\* and another skipped for a path under no section root
C11_Witness ==
    /\ _in_flight # {}
    /\ \E h, g \in Handlers :
            /\ hpc[h] = "respond" /\ hres[h] = [status |-> "skipped", reason |-> "empty path"]
            /\ hpc[g] = "respond" /\ hres[g] = [status |-> "skipped", reason |-> "no section mapping"]
            /\ hloc[g].raw_path = <<"/", "z">>

\* ------------------------------------------------------------------------
\* C12
\* ------------------------------------------------------------------------
\* the table the claim names: {"/a/": "/x/", "/a/b/": "/y/"}
C12_Table ==
    << << <<"/", "a", "/">>, <<"/", "x", "/">> >>,
       << <<"/", "a", "/", "b", "/">>, <<"/", "y", "/">> >> >>

\* C12: with the table loaded from {"/a/": "/x/", "/a/b/": "/y/"}, mapping /a/b/c
\* in directory mode yields exactly /y/c/: the replacement of the longest
\* matching key spliced onto the unmatched remainder.
C12_LongestPrefix ==
    (/\ mapcall.data = C12_Table
     /\ mapcall.path = <<"/", "a", "/", "b", "/", "c">>
     /\ mapcall.dir_mode # <<>>)
        => mapcall.dir_mode[1] = <<"/", "y", "/", "c", "/">>

\* ------------------------------------------------------------------------
\* C13
\* ------------------------------------------------------------------------
\* C13: for every path and every table the result in directory mode is the
\* result in file mode followed by exactly one separator.
C13_DirectoryMode ==
    (mapcall.dir_mode # <<>> /\ mapcall.file_mode # <<>>)
        => mapcall.dir_mode[1] = mapcall.file_mode[1] \o <<"/">>

\* ------------------------------------------------------------------------
\* C14
\* ------------------------------------------------------------------------
\* the worker is about to perform, or is performing, a network call: a request
\* to rclone, the connect to Plex, or a request to the Plex library
WorkerOnNetwork ==
    \/ wpc = "rclone" /\ ~RcloneSkipped
    \/ wpc = "refresh"
    \/ wpc = "connect" /\ _plex = NoPlex
    \/ wpc \in {"sectionByID", "update", "query", "search", "analyze"} /\ loc.plex_instance # NoPlex

\* the thread that serves GET /health is about to connect to Plex
HealthOnNetwork == health_pc = "connect" /\ _plex = NoPlex

\* C14: no thread holds the InFlightSet lock or the connection lock while it
\* performs a network call.
C14_NoLockAcrossNetwork ==
    /\ WorkerOnNetwork => (_in_flight_lock # WorkerThread /\ _plex_lock # WorkerThread)
    /\ HealthOnNetwork => _plex_lock # HealthThread

\* ------------------------------------------------------------------------
\* C15
\* ------------------------------------------------------------------------
\* C15: a shutdown signal only clears the flag the worker tests between tasks:
\* when the worker has ended, by its own return or with the process, it holds no
\* task that has not been through Finalize.
C15_ShutdownBetweenTasks ==
    (exited \/ wpc = "stopped") =>
        /\ wpc \in {"loop", "get", "stopped"}
        /\ loc.task = NoTask

\* ------------------------------------------------------------------------
\* C16
\* ------------------------------------------------------------------------
\* C16: a step of the status query leaves the queue, the InFlightSet, the
\* history and the cached library connection handle unchanged.
C16_StatusReadOnly ==
    [][health_pc' # health_pc =>
           /\ sync_queue' = sync_queue
           /\ _in_flight' = _in_flight
           /\ history' = history
           /\ _plex' = _plex]_vars

\* ------------------------------------------------------------------------
\* C17
\* ------------------------------------------------------------------------
\* C17: the history never holds more than 50 entries; the completion of a task
\* puts its entry first and moves every earlier entry one place back, in order,
\* and from a full history only the oldest entry is lost.
C17_HistoryRing ==
    [][/\ Len(history') <= 50
       /\ (wpc = "history_add" /\ wpc' = "task_done") =>
              /\ Len(history') = (IF Len(history) < 50 THEN Len(history) + 1 ELSE 50)
              /\ history'[1].path = loc.task.mapped_folder
              /\ history'[1].status = loc.status
              /\ \A k \in 2..Len(history') : history'[k] = history[k - 1]
       /\ ~(wpc = "history_add" /\ wpc' = "task_done") => history' = history]_vars

\* the history is full and a completion has evicted the oldest entry: the
\* last entry is the one that was last but one before
C17_Witness ==
    /\ env.past = 49
    /\ wpc = "task_done"
    /\ Len(history) = 50
    /\ history[50] = PastHistory(49)[48]
    /\ history[50] # PastHistory(49)[49]

\* ------------------------------------------------------------------------
\* C18
\* ------------------------------------------------------------------------
\* C18: with the cache-refresh integration disabled the worker never waits for
\* the answer of a forget or a refresh request: the refresh step of every task
\* goes straight to the age gate and changes nothing, whatever the other rclone
\* settings are; the tasks then carry an empty cache path, which is sent nowhere.
C18_RefreshElided ==
    [][~USE_RCLONE =>
           /\ wpc' # "refresh"
           /\ (wpc = "rclone" /\ wpc' # wpc) =>
                  /\ wpc' = "age"
                  /\ loc' = loc
                  /\ loc.task.rclone_host_path = <<>>
           /\ \A h \in Handlers : hpc'[h] = "put" => hloc'[h].rclone_path = <<>>]_vars

\* with the integration disabled and an rclone URL configured, a task with an
\* empty cache path has passed the refresh step
C18_Witness ==
    /\ ~USE_RCLONE
    /\ RCLONE_RC_URL # ""
    /\ wpc = "age"
    /\ loc.task.rclone_host_path = <<>>

\* ------------------------------------------------------------------------
\* C19
\* ------------------------------------------------------------------------
\* a thread runs the body of get_plex in this step
WorkerGetsPlex == wpc = "connect" /\ wpc' # wpc
HealthGetsPlex == health_pc = "connect" /\ health_pc' # health_pc

\* C19: the cache holds one connection or none. A get that finds a connection
\* cached returns it and makes no connection; a get that finds the cache empty
\* attempts a connection and either caches and returns a connection that did
\* not exist before or leaves the cache empty; invalidate empties the cache;
\* nothing else changes the cache.
C19_ConnectionCache ==
    [][/\ (WorkerGetsPlex \/ HealthGetsPlex) =>
              IF _plex # NoPlex
              THEN _plex' = _plex /\ plex_connects' = plex_connects
              ELSE \/ _plex' = NoPlex /\ plex_connects' = plex_connects
                   \/ _plex' > plex_connects /\ plex_connects' = _plex'
       /\ WorkerGetsPlex => loc'.plex_instance = _plex'
       /\ (wpc = "invalidate" /\ wpc' # wpc) => (_plex' = NoPlex /\ wpc' = "get_plex")
       /\ _plex' # _plex =>
              (WorkerGetsPlex \/ HealthGetsPlex \/ wpc = "invalidate")]_vars

\* after a timeout the worker has invalidated the cache and the reconnect has
\* failed and left it empty, which has failed that task; the get of the next
\* task has made a new connection
C19_Witness ==
    /\ wpc = "scan_if"
    /\ loc.plex_instance = 2
    /\ _plex = 2
    /\ history # <<>>
    /\ history[1].error = NoneTypeError

\* ------------------------------------------------------------------------
\* C20
\* ------------------------------------------------------------------------
\* a run in which no call fails and no signal arrives
NoFaultRun == ~env.faults /\ ~env.signals

\* C20: in a run with no faults a task leaves the queue only when the worker
\* pulls it, and every task put is either queued or held by the worker; the
\* task the worker holds reaches the end of its processing with status ok and
\* exactly one rescan request sent, for its libraryPath in the section that
\* path resolves to; it then gets exactly one history entry, with status ok and
\* its libraryPath, is marked done and is dropped.
C20_EndToEnd ==
    [][NoFaultRun =>
          /\ unfinished_tasks = Len(sync_queue) + (IF loc.task # NoTask THEN 1 ELSE 0)
          /\ sync_queue' # sync_queue =>
                 \/ /\ wpc = "get" /\ sync_queue # <<>>
                    /\ sync_queue' = Tail(sync_queue) /\ loc'.task = Head(sync_queue)
                 \/ Len(sync_queue') = Len(sync_queue) + 1 /\ wpc' = wpc
          /\ (wpc # "discard" /\ wpc' = "discard") =>
                 /\ loc'.status = "ok"
                 /\ loc'.scans = <<[section_id |-> ResolveSection(loc.task.mapped_folder),
                                    path |-> loc.task.mapped_folder]>>
          /\ (wpc = "discard" /\ wpc' # wpc) =>
                 (wpc' = "history_add" /\ loc'.task = loc.task /\ loc'.scans = loc.scans)
          /\ (wpc = "history_add" /\ wpc' # wpc) =>
                 /\ wpc' = "task_done"
                 /\ Len(history') = (IF Len(history) < 50 THEN Len(history) + 1 ELSE 50)
                 /\ history'[1] = [label |-> loc.task.label, path |-> loc.task.mapped_folder,
                                   status |-> "ok", error |-> <<>>]
          /\ history' # history => wpc = "history_add"
          /\ (wpc = "task_done" /\ wpc' # wpc) =>
                 /\ wpc' = "loop"
                 /\ loc'.task = NoTask
                 /\ unfinished_tasks' = unfinished_tasks - 1]_vars

\* a path that no mapping rule rewrites and that lies under a section root, with
\* no minimum age: its task has sent one rescan request to that section and its
\* history entry with status ok has been written
C20_Witness ==
    /\ NoFaultRun
    /\ MINIMUM_AGE = 0
    /\ wpc = "task_done"
    /\ loc.task.raw_path = <<"/", "M", "/", "y">>
    /\ loc.scans = <<[section_id |-> "1", path |-> <<"/", "M", "/", "y", "/">>]>>
    /\ history[1] = [label |-> Label, path |-> <<"/", "M", "/", "y", "/">>,
                     status |-> "ok", error |-> <<>>]
    /\ Len(history) = 1

\* ------------------------------------------------------------------------
\* C21
\* ------------------------------------------------------------------------
\* the exception that the library call of this step has raised, caught and
\* dropped or not; <<>> when the call has returned
RaisedInStep ==
    IF loc'.caught # <<>> THEN loc'.caught
    ELSE IF loc.status = "ok" /\ loc'.status = "error" THEN loc'.error_msg
    ELSE <<>>

\* C21: a timeout-class error raised by the section lookup, the rescan request
\* or a reconciliation query while attempts remain sends the worker to
\* invalidate the connection, reconnect, wait the backoff and start the next
\* attempt; an error that is not timeout-class raised by one of these steps
\* fails the task with status error and that message, with no further attempt.
C21_RetryOrFail ==
    [][/\ (wpc \in {"sectionByID", "update", "query", "search"} /\ RaisedInStep # <<>>) =>
              IF is_timeout(RaisedInStep) /\ loc.attempt < 3
              THEN wpc' = "invalidate"
              ELSE /\ wpc' = "discard"
                   /\ loc'.status = "error"
                   /\ loc'.error_msg = RaisedInStep
       /\ (wpc = "invalidate" /\ wpc' # wpc) => (_plex' = NoPlex /\ wpc' = "get_plex")
       /\ (wpc = "connect" /\ loc.ret = "backoff" /\ wpc' # wpc) =>
              (wpc' = "backoff" /\ loc'.plex_instance = _plex')
       /\ (wpc = "backoff" /\ wpc' # wpc) =>
              (wpc' = "sectionByID" /\ loc'.attempt = loc.attempt + 1)]_vars

\* the worker's step for the task it holds: 1 Delay, 2 Cache Refresh, 3 Age
\* Gate, 4 Rescan, 5 Reconcile, 6 Finalize; 0 between two tasks
Stage(pc) ==
    IF pc \in {"delay", "sleep"} THEN 1
    ELSE IF pc \in {"rclone", "refresh"} THEN 2
    ELSE IF pc = "age" THEN 3
    ELSE IF pc \in {"get_plex", "connect", "scan_if", "sectionByID", "update", "invalidate",
                    "backoff"} THEN 4
    ELSE IF pc \in {"query", "search", "analyze"} THEN 5
    ELSE IF pc \in {"discard", "history_add", "task_done"} THEN 6
    ELSE 0

\* C22: a task starts with the Delay step and its steps never go back, but for
\* a new attempt that returns from Reconcile to Rescan; the reconciliation
\* starts after the rescan request only; and in a run observed with a clock the
\* worker is in none of the steps Cache Refresh, Age Gate, Rescan, Reconcile of
\* a task before WEBHOOK_DELAY seconds have passed since the task's queued_at
C22_StepOrder ==
    [][/\ (Stage(wpc) = 0 /\ Stage(wpc') > 0) => wpc' = "delay"
       /\ (Stage(wpc) > 0 /\ Stage(wpc') > 0) =>
              \/ Stage(wpc') >= Stage(wpc)
              \/ Stage(wpc) = 5 /\ wpc' = "invalidate"
       /\ (Stage(wpc') = 5 /\ Stage(wpc) # 5) => wpc = "update"
       /\ (env.clock /\ Stage(wpc') \in 2..5) =>
              now' - loc'.task.queued_at >= WEBHOOK_DELAY]_vars

\* the worker has sent the rescan request of a task that was queued while an
\* earlier task was in progress and that it has slept for
C22_Witness ==
    /\ env.clock
    /\ wpc = "update"
    /\ history # <<>>
    /\ loc.task.queued_at > 0
    /\ now - loc.task.queued_at < WEBHOOK_DELAY + TickSeconds

\* the worker has released the in-flight entry of its task for p
Released(p) == wpc = "history_add" /\ loc.task.mapped_folder = p /\ p \notin _in_flight

\* the worker has appended the history entry of its task for p
Recorded(p) ==
    /\ wpc = "task_done"
    /\ loc.task.mapped_folder = p
    /\ history # <<>>
    /\ history[1].path = p

\* at most 3 rescan requests per task and 6 reconciliation rounds per attempt
BoundedWork == loc.attempt <= 3 /\ Len(loc.scans) <= 3 /\ loc.i <= 6

\* the worker holds no task
WorkerIsIdle == wpc \in {"loop", "get"} /\ loc.task = NoTask

\* C23 as stated: every admitted task is finalized after a bounded number of
\* requests, and whenever the queue is empty and the worker is idle the
\* in-flight set is empty
C23_Original ==
    /\ [](BoundedWork /\ ((sync_queue = <<>> /\ WorkerIsIdle) => _in_flight = {}))
    /\ \A p \in LibraryPaths : TaskInFlight(p) ~> Released(p)
    /\ \A p \in LibraryPaths : TaskInFlight(p) ~> Recorded(p)

\* C23: every task for a path that a handler has inserted in the in-flight set
\* is finalized, its entry released and its history entry appended, after at
\* most 3 rescan requests and 6 reconciliation rounds per attempt, whatever
\* the library and the cache service answer; whenever the queue is empty, the
\* worker is idle and no handler thread is between the insertion of a path and
\* the put of its task, the in-flight set is empty
C23_Amended ==
    /\ [](BoundedWork /\
           ((sync_queue = <<>> /\ WorkerIsIdle /\ \A p \in LibraryPaths : Putting(p) = {})
               => _in_flight = {}))
    /\ \A p \in LibraryPaths : TaskInFlight(p) ~> Released(p)
    /\ \A p \in LibraryPaths : TaskInFlight(p) ~> Recorded(p)

\* the worker is idle again after a task that used all three attempts, with
\* nothing queued and nothing in flight
C23_Witness ==
    /\ WorkerIsIdle
    /\ sync_queue = <<>>
    /\ _in_flight = {}
    /\ \A h \in Handlers : hpc[h] = "idle"
    /\ history # <<>>
    /\ history[1].status = "error"
    /\ is_timeout(history[1].error)

\* C24: a task that the worker is about to record with status ok has had at
\* least one rescan request for its libraryPath sent to the library
C24_OkMeansScanned ==
    (wpc = "history_add" /\ loc.status = "ok") =>
        \E k \in 1..Len(loc.scans) : loc.scans[k] = RescanRequest(loc.task)

====
